---- MODULE Spec2Model ----
(***************************************************************************)
(* The NASA APOD pipeline: extract (Fetcher), transform (Transformer) and  *)
(* load (Loader), with the two files that hand data from one stage to the  *)
(* next and the nasa_apod table the Loader upserts into.                   *)
(***************************************************************************)
EXTENDS Integers, Sequences, FiniteSets, TLC

VARIABLES
    raw,         \* data/raw/nasa_data.json: Absent, or a JSON dict or list
    staged,      \* data/staged/nasa_data_staged.csv: Absent, or a CSV
    store,       \* the rows of table nasa_apod
    lastResp,    \* body of the API response of the latest successful fetch
    last,        \* latest stage invocation and how it ended
    stageRuns,   \* number of stage invocations so far
    pc,          \* position of load_to_supabase
    df,          \* the Loader's DataFrame (rows after read_csv and line 28)
    i,           \* the Loader's loop variable (0-based row offset)
    calls,       \* statements posted by the current Loader run, in order
    outstanding, \* requests.post calls that have not returned yet
    returned,    \* resp.ok of each call of the current run that has returned
    pauses,      \* time.sleep(0.5) calls completed by the current Loader run
    store0,      \* the table as it was when the current Loader run started
    runEnd,      \* the table as it was when the first Loader run ended
    loadRuns,    \* number of Loader runs started
    outage       \* TRUE once the endpoint refused a well-formed statement

vars == <<raw, staged, store, lastResp, last, stageRuns, pc, df, i, calls,
          outstanding, returned, pauses, store0, runEnd, loadRuns, outage>>

fetchVars == <<raw, lastResp>>
loaderVars == <<pc, df, i, calls, outstanding, returned, pauses, store0, runEnd, loadRuns, outage>>

-----------------------------------------------------------------------------
(* Bounds of the model *)

\* records of the longest raw file left by an earlier run or placed by hand
MaxItems == 2
\* stage invocations explored in the pipeline specification
MaxStageRuns == 3
\* rows of the longest staged file given to the Loader specification
MaxRows == 45
\* Loader runs on one staged file
MaxLoadRuns == 2

(* Program constants *)

\* batch_size
batch_size == 20

-----------------------------------------------------------------------------
(* Values *)

\* Python None, and the NaN pandas reads from an empty CSV cell
None == "<None>"
NaN == "<NaN>"

\* no fetch has succeeded yet
NoResponse == [kind |-> "none"]

\* a file that does not exist
Absent == [kind |-> "absent"]

\* json values: dict and list
Dict(r) == [kind |-> "dict", val |-> r]
List(s) == [kind |-> "list", val |-> s]

\* the text of the n-th calendar day, as the API writes a date
Day(n) == "day" \o ToString(n)

\* columns of the staged CSV and of the table
Columns == <<"date", "title", "explanation", "media_type", "image_url">>

\* APOD records the API can return: an image with a url, a video of the same
\* day with url and thumbnail, a record with only a thumbnail and no
\* media_type, a video with neither url nor thumbnail, a record whose url is
\* the empty string
ApiRecords ==
    { [date |-> Day(1), title |-> "A", explanation |-> "E", media_type |-> "image",
       url |-> "u1"],
      [date |-> Day(1), title |-> "B's", explanation |-> "E", media_type |-> "video",
       url |-> "u2", thumbnail_url |-> "t2"],
      [date |-> Day(2), title |-> "A", explanation |-> "E", thumbnail_url |-> "t3"],
      [date |-> Day(2), title |-> "B's", explanation |-> "E", media_type |-> "video"],
      [date |-> Day(3), title |-> "A", explanation |-> "E", url |-> "",
       thumbnail_url |-> "t5"] }

SeqsUpTo(S, n) == UNION { [1..k -> S] : k \in 0..n }

\* bodies response.json() can return: one object, or an array with one object
\* for each published day of the range, in the order of the days
DayOf(r) == CHOOSE d \in 1..Cardinality(ApiRecords) : r.date = Day(d)
ApiResponses ==
    { Dict(r) : r \in ApiRecords }
        \cup { List(s) : s \in { t \in SeqsUpTo(ApiRecords, Cardinality({ r.date : r \in ApiRecords })) :
                                   \A k \in 1..(Len(t) - 1) : DayOf(t[k]) < DayOf(t[k + 1]) } }

\* raw files an earlier run or a hand can have left: none, one object, or any
\* list of records, records of one day included
RawFiles ==
    {Absent} \cup { Dict(r) : r \in ApiRecords } \cup { List(s) : s \in SeqsUpTo(ApiRecords, MaxItems) }

-----------------------------------------------------------------------------
(* Transformer: pure parts *)

\* dict.get(key) and dict.get(key, default)
Get(record, key) == IF key \in DOMAIN record THEN record[key] ELSE None
GetOr(record, key, default) == IF key \in DOMAIN record THEN record[key] ELSE default

\* Python truth value of a str or None
Truthy(v) == v \notin {None, ""}

\* mutant: the thumbnail is tried first
PyOrSecondFirst(a, b) == IF Truthy(b) THEN b ELSE a

\* a or b
PyOr(a, b) == IF Truthy(a) THEN a ELSE b

\* the dict appended for one raw record
Project(record) ==
    [date        |-> Get(record, "date"),
     title       |-> Get(record, "title"),
     explanation |-> Get(record, "explanation"),
     media_type  |-> GetOr(record, "media_type", "image"),
     image_url   |-> PyOr(Get(record, "url"), Get(record, "thumbnail_url"))]

\* if isinstance(data, dict): data = [data]
AsList(data) == IF data.kind = "dict" THEN <<data.val>> ELSE data.val

\* mutant: only the first record of each date is kept
RECURSIVE KeepFirst(_)
KeepFirst(data) ==
    IF Len(data) = 0 THEN <<>>
    ELSE LET front == SubSeq(data, 1, Len(data) - 1)
             x == data[Len(data)]
         IN  IF \E j \in 1..Len(front) : Get(front[j], "date") = Get(x, "date")
             THEN KeepFirst(front)
             ELSE Append(KeepFirst(front), x)
RecordsDedup(data) == [k \in 1..Len(KeepFirst(data)) |-> Project(KeepFirst(data)[k])]

\* the records list built by the loop over data
Records(data) == [k \in 1..Len(data) |-> Project(data[k])]

\* to_csv writes None as an empty cell
CsvCell(v) == IF v = None THEN "" ELSE v

\* pd.DataFrame(records).to_csv(index=False): a frame built from no records
\* has no columns, so its file has an empty header line and no rows
ToCsv(records) ==
    [kind    |-> "csv",
     columns |-> IF Len(records) = 0 THEN <<>> ELSE Columns,
     rows    |-> [k \in 1..Len(records) |->
                    [c \in DOMAIN records[k] |-> CsvCell(records[k][c])]]]

-----------------------------------------------------------------------------
(* Loader: pure parts *)

\* read_csv turns an empty cell into NaN
ReadCell(c) == IF c = "" THEN NaN ELSE c

\* pd.to_datetime(...).dt.strftime('%Y-%m-%d %H:%M:%S'); a missing date stays missing
Timestamp(d) == IF d = NaN THEN NaN ELSE d \o " 00:00:00"

\* df after lines 25 and 28
ReadCsv(file) ==
    [k \in 1..Len(file.rows) |->
        [c \in DOMAIN file.rows[k] |->
            IF c = "date" THEN Timestamp(ReadCell(file.rows[k][c]))
                          ELSE ReadCell(file.rows[k][c])]]

Min(a, b) == IF a < b THEN a ELSE b

\* df.iloc[i:i + batch_size]
Slice(frame, from) == SubSeq(frame, from + 1, Min(from + batch_size, Len(frame)))

\* batch_df.where(pd.notnull(batch_df), None).to_dict("records")
ToRecords(batch_df) ==
    [k \in 1..Len(batch_df) |->
        [c \in DOMAIN batch_df[k] |-> IF batch_df[k][c] = NaN THEN None ELSE batch_df[k][c]]]

\* str.replace("'", "''") on the strings of the model
Escape(s) == IF s = "B's" THEN "B''s" ELSE s

\* an f-string field
FStr(v) == IF v = None THEN "None" ELSE v

\* .replace is called on title, explanation and image_url: None has no such method
CanBuild(r) == r.title # None /\ r.explanation # None /\ r.image_url # None

\* the VALUES tuple of one row: the bodies of its five quoted literals
ValueOf(r) ==
    [date        |-> FStr(r.date),
     title       |-> Escape(r.title),
     explanation |-> Escape(r.explanation),
     media_type  |-> FStr(r.media_type),
     image_url   |-> Escape(r.image_url)]

\* the statement posted for one batch
Statement(batch, from) ==
    [offset |-> from, values |-> [k \in 1..Len(batch) |-> ValueOf(batch[k])]]

\* range(0, len(df), batch_size): the offset after i, and the loop test
NextOffset(from) == from + batch_size
LoopPc(from, frame) == IF from < Len(frame) THEN "Batching" ELSE "Done"

-----------------------------------------------------------------------------
(* The table behind rpc/execute_sql *)

\* the string a quoted SQL literal denotes ('' is one quote)
SqlText(body) == IF body = "B''s" THEN "B's" ELSE body

\* the rows a statement proposes for insertion
Proposed(stmt) ==
    LET values == stmt.values
    IN  [k \in 1..Len(values) |-> [c \in DOMAIN values[k] |-> SqlText(values[k][c])]]

\* INSERT ... ON CONFLICT DO UPDATE may not touch a row twice: a statement
\* proposing two rows with one date is refused (cardinality violation)
Refused(stmt) ==
    LET values == stmt.values
    IN  Cardinality({ SqlText(values[k].date) : k \in 1..Len(values) }) < Len(values)

\* mutant: a plain INSERT into a table without the key
UpsertNoConflict(table, stmt) ==
    table \cup { Proposed(stmt)[k] : k \in 1..Len(stmt.values) }

\* INSERT ... ON CONFLICT (date) DO UPDATE SET the four other columns
Upsert(table, stmt) ==
    LET rows == Proposed(stmt)
        dates == { rows[k].date : k \in 1..Len(rows) }
    IN  { t \in table : t.date \notin dates } \cup { rows[k] : k \in 1..Len(rows) }

-----------------------------------------------------------------------------
(* Stage invocations *)

\* the stages are separate scripts run one after the other
Terminal == {"Idle", "Done", "Failed"}
StageIdle == pc \in Terminal /\ stageRuns < MaxStageRuns

Ended(stage, result) ==
    /\ last' = [stage |-> stage, result |-> result]
    /\ stageRuns' = stageRuns + 1

(* Fetcher *)

\* mutant: the new items are appended to the list already in the file
WrittenAppend(prior, data) ==
    IF prior.kind = "list" THEN List(prior.val \o AsList(data)) ELSE List(AsList(data))

\* what filename.write_text(json.dumps(data)) leaves in the raw file
Written(prior, data) == List(AsList(data))

\* if not api_key: raise ValueError
FetchNoKey ==
    /\ StageIdle
    /\ Ended("extract", "ValueError")
    /\ UNCHANGED <<raw, lastResp, staged, store, loaderVars>>

\* requests.get times out, or raise_for_status() raises
FetchRemoteError ==
    /\ StageIdle
    /\ \E e \in {"Timeout", "HTTPError"} : Ended("extract", e)
    /\ UNCHANGED <<raw, lastResp, staged, store, loaderVars>>

FetchOk ==
    /\ StageIdle
    /\ \E data \in ApiResponses :
        /\ raw' = Written(raw, data)
        /\ lastResp' = data
    /\ Ended("extract", "ok")
    /\ UNCHANGED <<staged, store, loaderVars>>

(* Transformer *)

\* the staged file after df.to_csv(output_path)
Transformed(data) == ToCsv(Records(AsList(data)))

\* mutant: the output file is created before the input is looked for
TransformMissingWrites ==
    /\ StageIdle
    /\ raw = Absent
    /\ staged' = ToCsv(<<>>)
    /\ Ended("transform", "FileNotFoundError")
    /\ UNCHANGED <<raw, lastResp, store, loaderVars>>

\* if not raw_path.exists(): raise FileNotFoundError
TransformMissing ==
    /\ StageIdle
    /\ raw = Absent
    /\ Ended("transform", "FileNotFoundError")
    /\ UNCHANGED <<raw, lastResp, staged, store, loaderVars>>

TransformOk ==
    /\ StageIdle
    /\ raw # Absent
    /\ staged' = Transformed(raw)
    /\ Ended("transform", "ok")
    /\ UNCHANGED <<raw, lastResp, store, loaderVars>>

(* Loader *)

LoadIdle == StageIdle /\ loadRuns < MaxLoadRuns

\* the run ends in pc' = "Done" or "Failed", in a step that leaves the table alone
Finish(result) ==
    /\ last' = [stage |-> "load", result |-> result]
    /\ runEnd' = IF loadRuns = 1 THEN store ELSE runEnd

Begin ==
    /\ loadRuns' = loadRuns + 1
    /\ stageRuns' = stageRuns + 1
    /\ store0' = store
    /\ df' = <<>>
    /\ i' = 0
    /\ calls' = <<>>
    /\ returned' = <<>>
    /\ pauses' = 0

\* if not os.path.exists(csv_path): raise FileNotFoundError
LoadMissing ==
    /\ LoadIdle
    /\ staged = Absent
    /\ Begin
    /\ pc' = "Failed"
    /\ last' = [stage |-> "load", result |-> "FileNotFoundError"]
    /\ runEnd' = IF loadRuns = 0 THEN store ELSE runEnd
    /\ UNCHANGED <<raw, lastResp, staged, store, outstanding, outage>>

LoadStart ==
    /\ LoadIdle
    /\ staged # Absent
    /\ Begin
    /\ pc' = "Reading"
    /\ last' = [stage |-> "load", result |-> "running"]
    /\ UNCHANGED <<raw, lastResp, staged, store, outstanding, outage, runEnd>>

\* pd.read_csv on a file without columns raises EmptyDataError: the run ends
\* before line 28
ReadEmpty ==
    /\ pc = "Reading"
    /\ staged.columns = <<>>
    /\ pc' = "Failed"
    /\ Finish("EmptyDataError")
    /\ UNCHANGED <<raw, lastResp, staged, store, stageRuns, df, i, calls, outstanding, returned,
                   pauses, store0, loadRuns, outage>>

\* lines 25 to 31: read, convert the dates, enter the loop
ReadOk ==
    /\ pc = "Reading"
    /\ staged.columns # <<>>
    /\ df' = ReadCsv(staged)
    /\ i' = 0
    /\ pc' = LoopPc(0, df')
    /\ IF pc' = "Done" THEN Finish("ok") ELSE UNCHANGED <<last, runEnd>>
    /\ UNCHANGED <<raw, lastResp, staged, store, stageRuns, calls, outstanding, returned,
                   pauses, store0, loadRuns, outage>>

\* the batch of the current iteration
Batch == ToRecords(Slice(df, i))

\* lines 36 to 44 raise AttributeError on a row with a None field
BuildFail ==
    /\ pc = "Batching"
    /\ LET batch == Batch IN \E k \in 1..Len(batch) : ~CanBuild(batch[k])
    /\ pc' = "Failed"
    /\ Finish("AttributeError")
    /\ UNCHANGED <<raw, lastResp, staged, store, stageRuns, df, i, calls, outstanding, returned,
                   pauses, store0, loadRuns, outage>>

\* mutant: the next call is sent while one is still out
CanPostEarly == pc \in {"Batching", "Upserting"}

\* requests.post blocks: it is called only from the loop body
CanPost == pc = "Batching"

\* lines 35 to 67: build the statement and send it
Post ==
    /\ CanPost
    /\ LET batch == Batch
       IN  /\ \A k \in 1..Len(batch) : CanBuild(batch[k])
           /\ calls' = Append(calls, Statement(batch, i))
    /\ outstanding' = outstanding + 1
    /\ pc' = "Upserting"
    /\ UNCHANGED <<raw, lastResp, staged, store, last, stageRuns, df, i, returned,
                   pauses, store0, runEnd, loadRuns, outage>>

\* mutant: resp.ok is not looked at
NotOkIgnored == "Pausing"

\* where the Loader goes when resp.ok is false: raise RuntimeError
NotOkPc == "Failed"

\* the statement ran and resp.ok is true
RespondOk ==
    /\ pc = "Upserting"
    /\ outstanding > 0
    /\ ~Refused(calls[Len(calls)])
    /\ store' = Upsert(store, calls[Len(calls)])
    /\ outstanding' = outstanding - 1
    /\ returned' = Append(returned, TRUE)
    /\ pc' = "Pausing"
    /\ UNCHANGED <<raw, lastResp, staged, last, stageRuns, df, i, calls, pauses,
                   store0, runEnd, loadRuns, outage>>

NotOk(result) ==
    /\ outstanding' = outstanding - 1
    /\ returned' = Append(returned, FALSE)
    /\ pc' = NotOkPc
    /\ IF pc' = "Failed" THEN Finish(result) ELSE UNCHANGED <<last, runEnd>>
    /\ UNCHANGED <<raw, lastResp, staged, store, stageRuns, df, i, calls, pauses,
                   store0, loadRuns>>

\* the table refuses the statement: nothing of it is committed, resp.ok is false
RespondRefused ==
    /\ pc = "Upserting"
    /\ outstanding > 0
    /\ Refused(calls[Len(calls)])
    /\ NotOk("RuntimeError")
    /\ UNCHANGED outage

\* the endpoint answers a well-formed statement with an error status
RespondOutage ==
    /\ pc = "Upserting"
    /\ outstanding > 0
    /\ ~Refused(calls[Len(calls)])
    /\ NotOk("RuntimeError")
    /\ outage' = TRUE

\* lines 71 and 72, then the next iteration or the end of the loop
Pause ==
    /\ pc = "Pausing"
    /\ pauses' = pauses + 1
    /\ i' = NextOffset(i)
    /\ pc' = LoopPc(i', df)
    /\ IF pc' = "Done" THEN Finish("ok") ELSE UNCHANGED <<last, runEnd>>
    /\ UNCHANGED <<raw, lastResp, staged, store, stageRuns, df, calls, outstanding, returned,
                   store0, loadRuns, outage>>

-----------------------------------------------------------------------------
(* Specifications *)

\* a row of the table that an earlier load left behind
SeedRow ==
    [date |-> Timestamp(Day(1)), title |-> "Z", explanation |-> "E",
     media_type |-> "image", image_url |-> "u0"]

\* and one of a day no staged file mentions
FarRow ==
    [date |-> Timestamp(Day(0)), title |-> "Y", explanation |-> "E",
     media_type |-> "video", image_url |-> "u0"]

InitStores == { {}, {SeedRow, FarRow} }

InitLoader ==
    /\ lastResp = NoResponse
    /\ last = [stage |-> "none", result |-> "none"]
    /\ stageRuns = 0
    /\ pc = "Idle"
    /\ df = <<>>
    /\ i = 0
    /\ calls = <<>>
    /\ outstanding = 0
    /\ returned = <<>>
    /\ pauses = 0
    /\ store0 = store
    /\ runEnd = {}
    /\ loadRuns = 0
    /\ outage = FALSE

\* the pipeline: any raw file, no staged file or the staged file of an earlier run
Init ==
    /\ raw \in RawFiles
    /\ staged \in {Absent, Transformed(List(<<CHOOSE r \in ApiRecords : r.title = "A" /\ "url" \in DOMAIN r /\ r.url = "u1">>))}
    /\ store \in InitStores
    /\ InitLoader

Next ==
    \/ FetchNoKey
    \/ FetchRemoteError
    \/ FetchOk
    \/ TransformMissing
    \/ TransformOk
    \/ LoadMissing
    \/ LoadStart
    \/ ReadEmpty
    \/ ReadOk
    \/ BuildFail
    \/ Post
    \/ RespondOk
    \/ RespondRefused
    \/ RespondOutage
    \/ Pause

Spec == Init /\ [][Next]_vars

\* staged files for the Loader alone.  Row k of the plain file of n rows is the
\* image of day k; WithDup makes row q a second row for the day of row p, with
\* another title; WithNull empties the image_url cell of row e (a record that
\* had neither url nor thumbnail_url)
PlainRow(k) ==
    [date |-> Day(k), title |-> "A", explanation |-> "E", media_type |-> "image",
     image_url |-> "u"]
Plain(n) == [k \in 1..n |-> PlainRow(k)]
WithDup(rows, p, q) ==
    IF p < q /\ q <= Len(rows)
    THEN [rows EXCEPT ![q] = [@ EXCEPT !.date = rows[p].date, !.title = "B's"]]
    ELSE rows
WithNull(rows, e) == [rows EXCEPT ![e] = [@ EXCEPT !.image_url = ""]]
Csv(rows) == [kind |-> "csv", columns |-> Columns, rows |-> rows]

\* no file, the file of an empty frame, the plain file of every length, the
\* files of every length whose last row has no image_url, and the longest
\* file with any one row without image_url, or with any row repeated by the
\* next row, by the row one batch later, or by the last row
LoadFiles ==
    {Absent, ToCsv(<<>>)}
        \cup { Csv(Plain(n)) : n \in 0..MaxRows }
        \cup { Csv(WithNull(Plain(n), n)) : n \in 1..MaxRows }
        \cup { Csv(WithNull(Plain(MaxRows), e)) : e \in 1..MaxRows }
        \cup UNION { { Csv(WithDup(Plain(MaxRows), p, q)) :
                         q \in {p + 1, p + batch_size, MaxRows} } : p \in 1..MaxRows }

InitLoad ==
    /\ raw = Absent
    /\ staged \in LoadFiles
    /\ store \in InitStores
    /\ InitLoader

NextLoad ==
    \/ LoadMissing
    \/ LoadStart
    \/ ReadEmpty
    \/ ReadOk
    \/ BuildFail
    \/ Post
    \/ RespondOk
    \/ RespondRefused
    \/ RespondOutage
    \/ Pause

SpecLoad == InitLoad /\ [][NextLoad]_vars

-----------------------------------------------------------------------------
(* Claims about the Loader, checked under SpecLoad *)

CeilDiv(n, d) == (n + d - 1) \div d

\* a Loader run has ended and nothing ran after it
LoadEnded == pc \in {"Done", "Failed"} /\ last.stage = "load"

\* the staged file exists and has the header row
HasHeader(file) == file # Absent /\ file.columns = Columns

AllOk == \A k \in 1..Len(returned) : returned[k]

\* C1: for a staged file of n data rows, a run in which every upsert call
\* succeeds issues exactly ceil(n/20) calls, each of 20 rows but possibly the
\* last, and the calls taken in order are the consecutive slices of the rows.
C1_ExactBatches ==
    (LoadEnded /\ HasHeader(staged) /\ AllOk) =>
        LET n == Len(staged.rows)
            m == CeilDiv(n, 20)
        IN  /\ Len(calls) = m
            /\ \A k \in 1..m :
                Len(calls[k].values) = IF k < m THEN 20 ELSE n - 20 * (m - 1)
            /\ \A r \in 1..n :
                LET v == calls[((r - 1) \div 20) + 1].values[((r - 1) % 20) + 1]
                IN  /\ v.date = staged.rows[r].date \o " 00:00:00"
                    /\ SqlText(v.title) = staged.rows[r].title

\* C2: two staged rows with one date and different titles, anywhere in the
\* file: after the run the table holds exactly one row of that date, with the
\* title of the later row.
C2_LaterTitleWins ==
    (LoadEnded /\ HasHeader(staged) /\ ~outage) =>
        \A p, q \in 1..Len(staged.rows) :
            ( /\ p < q
              /\ staged.rows[p].date = staged.rows[q].date
              /\ staged.rows[p].title # staged.rows[q].title
              /\ \A r \in (q + 1)..Len(staged.rows) : staged.rows[r].date # staged.rows[q].date )
            => LET hits == { t \in store : t.date = staged.rows[q].date \o " 00:00:00" }
               IN  /\ Cardinality(hits) = 1
                   /\ \A t \in hits : t.title = staged.rows[q].title

\* C3: the table never holds two rows of one date, and a second run on the
\* same staged file, the endpoint being up, ends with the table the first run
\* left, no row more.
C3_Idempotent ==
    /\ \A a, b \in store : a.date = b.date => a = b
    /\ (loadRuns >= 2 /\ LoadEnded /\ ~outage) =>
        /\ store = runEnd
        /\ Cardinality(store) <= Cardinality(runEnd)

C3_Witness ==
    /\ loadRuns = 2 /\ pc = "Done" /\ ~outage
    /\ Len(calls) = 3
    /\ \E t \in store : t.title = "Y"
    /\ \E t \in runEnd : t.title = "B's"

\* the table is what the first k batches of the run made of store0: of the rows
\* of those batches the last one of each date, and the rows of store0 with other dates
Committed(k) ==
    LET m == Min(20 * k, Len(df))
        dates == { df[r].date : r \in 1..m }
    IN  /\ \A r \in 1..m :
            (\A r2 \in (r + 1)..m : df[r2].date # df[r].date) => df[r] \in store
        /\ \A t \in store : t.date \in dates \/ t \in store0
        /\ \A t \in store0 : t.date \in dates \/ t \in store
        /\ \A a, b \in store : a.date = b.date => a = b

\* C4: when the call of batch k does not report success the run is Failed, no
\* call follows it, batch k is not sent again, and the table is what batches
\* 1..k-1 made of it.
C4_FailStop ==
    \A k \in 1..Len(returned) :
        ~returned[k] =>
            /\ pc = "Failed"
            /\ last = [stage |-> "load", result |-> "RuntimeError"]
            /\ k = Len(returned) /\ Len(calls) = k /\ outstanding = 0
            /\ \A j \in 1..(k - 1) : returned[j]
            /\ pauses = k - 1
            /\ Committed(k - 1)

C4_Witness ==
    /\ pc = "Failed"
    /\ Len(returned) = 2 /\ ~returned[2]
    /\ Len(df) > 40
    /\ store # store0

\* C5: at most one upsert call is outstanding; the calls are issued in
\* increasing row order; when call k+1 has been issued, calls 1..k have
\* returned successfully and k pauses have elapsed.
C5_Sequential ==
    /\ outstanding <= 1
    /\ outstanding = Len(calls) - Len(returned)
    /\ \A k \in 1..Len(calls) : calls[k].offset = 20 * (k - 1)
    /\ \A k \in 1..(Len(calls) - 1) : k <= Len(returned) /\ returned[k]
    /\ Len(calls) > 0 => pauses >= Len(calls) - 1

C5_Witness == Len(calls) = 3 /\ outstanding = 1 /\ pauses = 2 /\ Len(returned) = 2

-----------------------------------------------------------------------------
(* Claims about the Fetcher, the Transformer and the whole pipeline, checked
   under Spec *)

\* the items of a json value: an object counts as one
NumItems(v) == IF v.kind = "dict" THEN 1 ELSE Len(v.val)
ItemAt(v, k) == IF v.kind = "dict" THEN v.val ELSE v.val[k]

\* the Transformer has just written the staged file from the present raw file
TransformDone == last = [stage |-> "transform", result |-> "ok"]

\* a stage has been invoked in this step
Invoked(stage) == stageRuns' = stageRuns + 1 /\ last'.stage = stage

\* C6: the staged file has one row per raw record, in the order of the raw
\* file, row k made from record k; records of one date are all kept.
C6_OneRowPerRecord ==
    TransformDone =>
        /\ staged # Absent
        /\ Len(staged.rows) = NumItems(raw)
        /\ \A k \in 1..NumItems(raw) :
            /\ staged.rows[k].date = ItemAt(raw, k).date
            /\ staged.rows[k].title = ItemAt(raw, k).title
            /\ staged.rows[k].explanation = ItemAt(raw, k).explanation

C6_Witness ==
    /\ TransformDone
    /\ Len(staged.rows) = 2
    /\ staged.rows[1].date = staged.rows[2].date
    /\ staged.rows[1].title # staged.rows[2].title

C8_MissingInput ==
    /\ [][ /\ (Invoked("transform") /\ raw = Absent) =>
                (last'.result = "FileNotFoundError" /\ staged' = staged)
           /\ (Invoked("load") /\ staged = Absent) =>
                /\ last'.result = "FileNotFoundError"
                /\ pc' = "Failed"
                /\ calls' = <<>> /\ outstanding' = 0
                /\ store' = store ]_vars
    /\ [](last = [stage |-> "load", result |-> "FileNotFoundError"] =>
            (pc = "Failed" /\ calls = <<>> /\ store = store0))

C8_Witness ==
    /\ last = [stage |-> "transform", result |-> "FileNotFoundError"]
    /\ raw = Absent
    /\ staged # Absent

\* C9: once a fetch has succeeded the raw file is the list of the items of
\* the latest successful response, an object having become a list of one;
\* a fetch that fails leaves the raw file as it was.
C9_RawIsLatestFetch ==
    /\ [](lastResp # NoResponse =>
            /\ raw.kind = "list"
            /\ Len(raw.val) = NumItems(lastResp)
            /\ \A k \in 1..NumItems(lastResp) : raw.val[k] = ItemAt(lastResp, k))
    /\ [][(Invoked("extract") /\ last'.result # "ok") => raw' = raw]_vars

C9_Witness ==
    /\ lastResp.kind = "dict"
    /\ last = [stage |-> "extract", result |-> "HTTPError"]
    /\ raw.kind = "list"
    /\ Len(raw.val) = 1

\* C10: the Loader accepts every row the Transformer writes from a record that
\* has date, title and explanation, a row with an empty image_url included:
\* when every upsert call succeeds the run is Done and every staged row is in
\* a posted statement.
C10_TransformedRowsLoad ==
    (LoadEnded /\ HasHeader(staged) /\ AllOk) =>
        /\ pc = "Done"
        /\ \A r \in 1..Len(staged.rows) :
            \E k \in 1..Len(calls) : \E j \in 1..Len(calls[k].values) :
                /\ calls[k].values[j].date = staged.rows[r].date \o " 00:00:00"
                /\ SqlText(calls[k].values[j].image_url) = staged.rows[r].image_url

====
